---- MODULE Spec2Model ----
(***************************************************************************)
(* Room registry and broadcast relay of the chat server                    *)
(* (src/Frontend/src/App.tsx, lines 484-735).                              *)
(*                                                                         *)
(* Node runs every callback to completion on one thread, so each handler   *)
(* (a "message" frame, a "close" event, the setInterval callback) is one   *)
(* atomic action.  Strings are sequences of one-character strings so that  *)
(* toUpperCase is computed character by character.                         *)
(*                                                                         *)
(* Time: the only use of a Date is the sweeper's now - lastActivity, so    *)
(* lastActivity is kept as the time elapsed since it.  It is 0 when        *)
(* written and grows by sweepInterval each time the timer fires; a Date    *)
(* written between two runs of the timer counts as old as the earlier run. *)
(*                                                                         *)
(* Sockets: ws takes readyState out of OPEN before it emits "close", and   *)
(* frames buffered by then are still handled, so a handler may run for a   *)
(* socket that is CLOSING (the handlers test readyState before each send). *)
(***************************************************************************)
EXTENDS Integers, Sequences, FiniteSets, TLC

VARIABLES
    rooms,          \* rooms: { [roomId: string]: Set<Client> }
    roomMetadata,   \* roomMetadata: { [roomId: string]: {created, lastActivity} };
                    \* lastActivity is kept as the milliseconds elapsed since
                    \* it; created is written and never read, and not carried
    socketRoomId,   \* socket.roomId of every connection (<<>> = undefined)
    readyState,     \* socket.readyState of every connection; CLOSED also
                    \* when no socket bears the name yet
    frames,         \* number of inbound frames handled so far
    sent,           \* the socket.send calls of the latest callback, in order
    last,           \* the latest callback: which one, for whom, on which code,
                    \* and the message.roomId it upper-cased to get the code
    lastUserCount,  \* the userCount each client got last, in a room-created
                    \* or a user-count-update
    processed,      \* number of callbacks so far that sent a room event
    inbox           \* the room events (chat-message, user-count-update) each
                    \* live connection has received, oldest first, each with
                    \* the number of the callback that sent it; kept by
                    \* OrderSpec only

vars == <<rooms, roomMetadata, socketRoomId, readyState,
          frames, sent, last, lastUserCount, processed, inbox>>

---------------------------------------------------------------------------
(* Bounds of the model *)

MaxFrames == 3      \* inbound frames handled in one behaviour

\* The names of the sockets.  A name is free when no live socket bears it and
\* no membership set holds it; the next connection may take any free name.
Conns == {"x", "y"}

---------------------------------------------------------------------------
(* JavaScript values carried by a frame *)

Undefined == [t |-> "undefined", v |-> <<>>]
Str(s) == [t |-> "string", v |-> s]
typeof(val) == val.t
Truthy(val) == IF val.t = "string" THEN val.v # <<>> ELSE FALSE

AB12CD == <<"A", "B", "1", "2", "C", "D">>
ab12cd == <<"a", "b", "1", "2", "c", "d">>
XY34ZW == <<"X", "Y", "3", "4", "Z", "W">>

UpperChar(ch) ==
    CASE ch = "a" -> "A"
      [] ch = "b" -> "B"
      [] ch = "c" -> "C"
      [] ch = "d" -> "D"
      [] OTHER -> ch

\* toUpperCase left out, the code used as received (a variant C14 rules out)
AsReceived(s) == s

toUpperCase(s) == [i \in DOMAIN s |-> UpperChar(s[i])]

\* The values of message.roomId the clients of the model send.
RoomIdVals == {Str(AB12CD), Str(ab12cd), Str(XY34ZW), Undefined}

\* The codes the random generator produces in the model.
GenCodes == {AB12CD, XY34ZW}

NoRoom == <<>>

expireTime == 10 * 60 * 1000       \* const expireTime (10 minutes)
sweepInterval == 5 * 60 * 1000     \* the setInterval period (5 minutes)

---------------------------------------------------------------------------
(* JavaScript objects used as maps *)

Has(obj, key) == key \in DOMAIN obj
Put(obj, key, val) == [k \in DOMAIN obj \cup {key} |-> IF k = key THEN val ELSE obj[k]]
Delete(obj, keys) == [k \in DOMAIN obj \ keys |-> obj[k]]

RECURSIVE SeqOf(_)
SeqOf(S) == IF S = {} THEN <<>>
            ELSE LET m == CHOOSE e \in S : TRUE IN <<m>> \o SeqOf(S \ {m})

---------------------------------------------------------------------------
(* Outbound events *)

Event(to, type, roomId, userCount, own, message, content, sender, room) ==
    [to |-> to, type |-> type, roomId |-> roomId, userCount |-> userCount,
     isOwnMessage |-> own, message |-> message, content |-> content,
     sender |-> sender, room |-> room]

\* RoomCreated with the count of a room just made, whatever its members (a
\* variant C12 rules out)
RoomCreatedAlone(to, roomId, n) ==
    Event(to, "room-created", roomId, 1, FALSE, "", Undefined, Undefined, roomId)

RoomCreated(to, roomId, n) ==
    Event(to, "room-created", roomId, n, FALSE, "", Undefined, Undefined, roomId)
JoinedRoom(to, roomId) ==
    Event(to, "joined-room", roomId, 0, FALSE, "", Undefined, Undefined, roomId)
UserCountUpdate(to, n, room) ==
    Event(to, "user-count-update", NoRoom, n, FALSE, "", Undefined, Undefined, room)
ChatEvent(to, content, sender, own, room) ==
    Event(to, "chat-message", NoRoom, 0, own, "", content, sender, room)
ErrorEvent(to, message) ==
    Event(to, "error", NoRoom, 0, FALSE, message, Undefined, Undefined, NoRoom)

\* if (client.readyState === WebSocket.OPEN) client.send(ev)
SendIfOpen(client, ev) == IF readyState[client] = "OPEN" THEN <<ev>> ELSE <<>>

\* OpenMembers with the test of readyState left out (a variant C19 rules out)
AllMembers(members) == SeqOf(members)

\* set.forEach(client => { if (client.readyState === WebSocket.OPEN) ... }):
\* the members the loop sends to, in the order it visits them
OpenMembers(members) == SeqOf({client \in members : readyState[client] = "OPEN"})

\* The effect of the sends of one callback on what the clients have seen.
Deliver(out) ==
    /\ sent' = out
    /\ lastUserCount' =
         [c \in Conns |->
            LET updates == SelectSeq(out, LAMBDA ev :
                               /\ ev.to = c
                               /\ ev.type \in {"user-count-update", "room-created"})
            IN IF updates = <<>> THEN lastUserCount[c]
               ELSE updates[Len(updates)].userCount]

Callback(op, conn, code, ok) ==
    [op |-> op, conn |-> conn, code |-> code, ok |-> ok, raw |-> NoRoom]
\* the callback took its code from message.roomId, received as raw
FromRoomId(cb, raw) == [cb EXCEPT !.raw = raw]
\* the latest step ran no handler that reads or writes the registry
Idle == Callback("idle", "", NoRoom, TRUE)

---------------------------------------------------------------------------
(* Registry steps shared by the handlers *)

\* AddMember with the Set created anew every time (a variant C10 rules out)
AddMemberFreshSet(r, roomId, socket) == Put(r, roomId, {socket})

\* if (!rooms[id]) rooms[id] = new Set();  rooms[id].add(socket)
AddMember(r, roomId, socket) ==
    LET r1 == IF Has(r, roomId) THEN r ELSE Put(r, roomId, {})
    IN Put(r1, roomId, r1[roomId] \cup {socket})

\* roomMetadata[id] = { created: new Date(), lastActivity: new Date() }
NewMetadata(md, roomId) == Put(md, roomId, [lastActivity |-> 0])

\* if (roomMetadata[id]) roomMetadata[id].lastActivity = new Date()
TouchMetadata(md, roomId) ==
    IF Has(md, roomId)
    THEN Put(md, roomId, [lastActivity |-> 0])
    ELSE md

\* RoomExists with the test left out, every code joinable (a variant C11
\* rules out)
RoomExistsAlways(roomId) == TRUE

\* rooms[upperRoomId] || roomMetadata[upperRoomId]
RoomExists(roomId) == Has(rooms, roomId) \/ Has(roomMetadata, roomId)

\* FreshCodes with the while loop left out: the first code generated is used
\* (a variant C21 rules out)
AnyCodes == GenCodes

\* the codes generateShortCode may return once the while loop ends
FreshCodes == {g \in GenCodes : ~Has(rooms, g) /\ ~Has(roomMetadata, g)}

\* BroadcastUserCount with the size taken before the joiner was added
\* (a variant C9 rules out)
BroadcastUserCountBefore(r, roomId) ==
    LET to == OpenMembers(r[roomId])
    IN [i \in DOMAIN to |-> UserCountUpdate(to[i], Cardinality(r[roomId]) - 1, roomId)]

\* BroadcastUserCount with the loop left after its first send (a variant C17
\* rules out)
BroadcastUserCountOnce(r, roomId) ==
    LET to == OpenMembers(r[roomId])
    IN [i \in DOMAIN to \cap {1} |-> UserCountUpdate(to[i], Cardinality(r[roomId]), roomId)]

\* the user-count-update broadcast of join-room and close
BroadcastUserCount(r, roomId) ==
    LET to == OpenMembers(r[roomId])
    IN [i \in DOMAIN to |-> UserCountUpdate(to[i], Cardinality(r[roomId]), roomId)]

\* the chat-message broadcast
BroadcastChat(r, roomId, content, sender, socket) ==
    LET to == OpenMembers(r[roomId])
    IN [i \in DOMAIN to |-> ChatEvent(to[i], content, sender, to[i] = socket, roomId)]

\* RemoveMember with the delete left out (a variant C18 rules out)
RemoveMemberNot(r, roomId, socket) == r

\* rooms[roomId].delete(socket)
RemoveMember(r, roomId, socket) == Put(r, roomId, r[roomId] \ {socket})

\* timeSinceActivity = now.getTime() - metadata.lastActivity.getTime()
timeSinceActivity(md, roomId) == md[roomId].lastActivity

\* Expired without the test for members (a variant C6 rules out)
ExpiredByAgeOnly(md, roomId) == timeSinceActivity(md, roomId) > expireTime

\* Expired with >= for > (a variant C8 rules out)
ExpiredAtThreshold(md, roomId) ==
    /\ (~Has(rooms, roomId) \/ Cardinality(rooms[roomId]) = 0)
    /\ timeSinceActivity(md, roomId) >= expireTime

\* (!rooms[id] || rooms[id].size === 0) && timeSinceActivity > expireTime
Expired(md, roomId) ==
    /\ (~Has(rooms, roomId) \/ Cardinality(rooms[roomId]) = 0)
    /\ timeSinceActivity(md, roomId) > expireTime

\* Elapsed times are told apart up to here; nothing compares them beyond it.
MaxElapsed == expireTime + sweepInterval
Older(elapsed) == IF elapsed + sweepInterval > MaxElapsed THEN MaxElapsed
                  ELSE elapsed + sweepInterval

---------------------------------------------------------------------------
(* The server *)

Init ==
    /\ rooms = <<>>
    /\ roomMetadata = <<>>
    /\ socketRoomId = [c \in Conns |-> NoRoom]
    /\ readyState = [c \in Conns |-> "CLOSED"]
    /\ frames = 0
    /\ sent = <<>>
    /\ last = Idle
    /\ lastUserCount = [c \in Conns |-> 0]
    /\ processed = 0
    /\ inbox = [c \in Conns |-> <<>>]

\* the name is borne by no live socket and held by no membership set
Free(socket) ==
    /\ readyState[socket] = "CLOSED"
    /\ \A roomId \in DOMAIN rooms : socket \notin rooms[roomId]

\* wss.on("connection", socket => ...): a new socket, open, bound to no room,
\* which has received nothing
Connection(socket) ==
    /\ Free(socket)
    /\ readyState' = [readyState EXCEPT ![socket] = "OPEN"]
    /\ socketRoomId' = [socketRoomId EXCEPT ![socket] = NoRoom]
    /\ lastUserCount' = [lastUserCount EXCEPT ![socket] = 0]
    /\ sent' = <<>>
    /\ last' = Idle
    /\ UNCHANGED <<rooms, roomMetadata, frames>>

\* A frame is handled for a socket whose "close" event has not been emitted.
Receiving(socket) ==
    /\ readyState[socket] \in {"OPEN", "CLOSING"}
    /\ frames < MaxFrames
    /\ frames' = frames + 1

\* case "create-room"
CreateRoom(socket, customRoomId) ==
    /\ Receiving(socket)
    /\ \E newRoomId \in (IF Truthy(customRoomId) /\ typeof(customRoomId) = "string"
                         THEN {toUpperCase(customRoomId.v)}
                         ELSE FreshCodes) :
          LET given == IF Truthy(customRoomId) /\ typeof(customRoomId) = "string"
                       THEN customRoomId.v ELSE NoRoom IN
          /\ rooms' = AddMember(rooms, newRoomId, socket)
          /\ roomMetadata' = NewMetadata(roomMetadata, newRoomId)
          /\ socketRoomId' = [socketRoomId EXCEPT ![socket] = newRoomId]
          /\ Deliver(SendIfOpen(socket,
                 RoomCreated(socket, newRoomId, Cardinality(rooms'[newRoomId]))))
          /\ last' = FromRoomId(Callback("create-room", socket, newRoomId, TRUE),
                                 given)
    /\ UNCHANGED <<readyState>>

\* JoinRoom with the broadcast of the count run before joined-room is sent
\* (a variant C24 rules out)
JoinRoomCountFirst(socket, joinRoomId) ==
    /\ Receiving(socket)
    /\ IF typeof(joinRoomId) # "string" \/ ~Truthy(joinRoomId)
       THEN /\ Deliver(SendIfOpen(socket, ErrorEvent(socket, "Invalid room code")))
            /\ last' = Callback("join-room", socket, NoRoom, FALSE)
            /\ UNCHANGED <<rooms, roomMetadata, socketRoomId>>
       ELSE LET upperRoomId == toUpperCase(joinRoomId.v) IN
            IF RoomExists(upperRoomId)
            THEN /\ rooms' = AddMember(rooms, upperRoomId, socket)
                 /\ socketRoomId' = [socketRoomId EXCEPT ![socket] = upperRoomId]
                 /\ roomMetadata' = TouchMetadata(roomMetadata, upperRoomId)
                 /\ Deliver(BroadcastUserCount(rooms', upperRoomId)
                            \o SendIfOpen(socket, JoinedRoom(socket, upperRoomId)))
                 /\ last' = FromRoomId(Callback("join-room", socket, upperRoomId, TRUE),
                                        joinRoomId.v)
            ELSE /\ Deliver(SendIfOpen(socket, ErrorEvent(socket, "Room not found")))
                 /\ last' = FromRoomId(Callback("join-room", socket, upperRoomId, FALSE),
                                        joinRoomId.v)
                 /\ UNCHANGED <<rooms, roomMetadata, socketRoomId>>
    /\ UNCHANGED <<readyState>>

\* case "join-room"
JoinRoom(socket, joinRoomId) ==
    /\ Receiving(socket)
    /\ IF typeof(joinRoomId) # "string" \/ ~Truthy(joinRoomId)
       THEN /\ Deliver(SendIfOpen(socket, ErrorEvent(socket, "Invalid room code")))
            /\ last' = Callback("join-room", socket, NoRoom, FALSE)
            /\ UNCHANGED <<rooms, roomMetadata, socketRoomId>>
       ELSE LET upperRoomId == toUpperCase(joinRoomId.v) IN
            IF RoomExists(upperRoomId)
            THEN /\ rooms' = AddMember(rooms, upperRoomId, socket)
                 /\ socketRoomId' = [socketRoomId EXCEPT ![socket] = upperRoomId]
                 /\ roomMetadata' = TouchMetadata(roomMetadata, upperRoomId)
                 /\ Deliver(SendIfOpen(socket, JoinedRoom(socket, upperRoomId))
                            \o BroadcastUserCount(rooms', upperRoomId))
                 /\ last' = FromRoomId(Callback("join-room", socket, upperRoomId, TRUE),
                                        joinRoomId.v)
            ELSE /\ Deliver(SendIfOpen(socket, ErrorEvent(socket, "Room not found")))
                 /\ last' = FromRoomId(Callback("join-room", socket, upperRoomId, FALSE),
                                        joinRoomId.v)
                 /\ UNCHANGED <<rooms, roomMetadata, socketRoomId>>
    /\ UNCHANGED <<readyState>>

\* case "chat-message"
ChatMessage(socket, roomId, content, sender) ==
    /\ Receiving(socket)
    /\ IF typeof(roomId) # "string" \/ typeof(content) # "string"
          \/ typeof(sender) # "string"
       THEN /\ Deliver(SendIfOpen(socket,
                           ErrorEvent(socket, "Invalid chat message format")))
            /\ last' = Callback("chat-message", socket, NoRoom, FALSE)
       ELSE LET upperChatRoomId == toUpperCase(roomId.v) IN
            IF Has(rooms, upperChatRoomId)
            THEN /\ Deliver(BroadcastChat(rooms, upperChatRoomId, content, sender,
                                          socket))
                 /\ last' = FromRoomId(Callback("chat-message", socket,
                                                 upperChatRoomId, TRUE), roomId.v)
            ELSE /\ Deliver(SendIfOpen(socket, ErrorEvent(socket, "Room not found")))
                 /\ last' = FromRoomId(Callback("chat-message", socket,
                                                 upperChatRoomId, FALSE), roomId.v)
    /\ UNCHANGED <<rooms, roomMetadata, socketRoomId, readyState>>

\* default: an object whose type is none of the three
UnknownType(socket) ==
    /\ Receiving(socket)
    /\ Deliver(SendIfOpen(socket, ErrorEvent(socket, "Unknown message type")))
    /\ last' = Callback("unknown-type", socket, NoRoom, FALSE)
    /\ UNCHANGED <<rooms, roomMetadata, socketRoomId, readyState>>

\* InvalidMessage closing the socket that sent the frame (a variant C15
\* rules out)
InvalidMessageClosing(socket) ==
    /\ Receiving(socket)
    /\ Deliver(SendIfOpen(socket, ErrorEvent(socket, "Invalid message")))
    /\ last' = Callback("invalid-message", socket, NoRoom, FALSE)
    /\ readyState' = [readyState EXCEPT ![socket] = "CLOSING"]
    /\ UNCHANGED <<rooms, roomMetadata, socketRoomId>>

\* catch: JSON.parse threw, or the payload is not an object
InvalidMessage(socket) ==
    /\ Receiving(socket)
    /\ Deliver(SendIfOpen(socket, ErrorEvent(socket, "Invalid message")))
    /\ last' = Callback("invalid-message", socket, NoRoom, FALSE)
    /\ UNCHANGED <<rooms, roomMetadata, socketRoomId, readyState>>

\* The transport goes down: readyState leaves OPEN before "close" is emitted.
TransportClose(socket) ==
    /\ readyState[socket] = "OPEN"
    /\ readyState' = [readyState EXCEPT ![socket] = "CLOSING"]
    /\ last' = Idle
    /\ Deliver(<<>>)
    /\ UNCHANGED <<rooms, roomMetadata, socketRoomId, frames>>

\* OnClose deleting a room as soon as its last member leaves (a variant C7
\* rules out)
OnCloseDeleting(socket) ==
    /\ readyState[socket] = "CLOSING"
    /\ readyState' = [readyState EXCEPT ![socket] = "CLOSED"]
    /\ LET roomId == socketRoomId[socket] IN
       IF roomId # NoRoom /\ Has(rooms, roomId)
       THEN /\ IF rooms[roomId] \ {socket} # {}
               THEN /\ rooms' = RemoveMember(rooms, roomId, socket)
                    /\ roomMetadata' = roomMetadata
                    /\ Deliver(BroadcastUserCount(rooms', roomId))
               ELSE /\ rooms' = Delete(rooms, {roomId})
                    /\ roomMetadata' = Delete(roomMetadata, {roomId})
                    /\ Deliver(<<>>)
            /\ last' = Callback("close", socket, roomId, TRUE)
       ELSE /\ rooms' = rooms
            /\ roomMetadata' = roomMetadata
            /\ Deliver(<<>>)
            /\ last' = Callback("close", socket, NoRoom, TRUE)
    /\ UNCHANGED <<socketRoomId, frames>>

\* socket.on("close")
OnClose(socket) ==
    /\ readyState[socket] = "CLOSING"
    /\ readyState' = [readyState EXCEPT ![socket] = "CLOSED"]
    /\ LET roomId == socketRoomId[socket] IN
       IF roomId # NoRoom /\ Has(rooms, roomId)
       THEN /\ rooms' = RemoveMember(rooms, roomId, socket)
            /\ IF Cardinality(rooms'[roomId]) > 0
               THEN Deliver(BroadcastUserCount(rooms', roomId))
               ELSE Deliver(<<>>)
            /\ last' = Callback("close", socket, roomId, TRUE)
       ELSE /\ rooms' = rooms
            /\ Deliver(<<>>)
            /\ last' = Callback("close", socket, NoRoom, TRUE)
    /\ UNCHANGED <<roomMetadata, socketRoomId, frames>>

\* sweepInterval milliseconds pass
Elapse(md) == [roomId \in DOMAIN md |-> [lastActivity |-> Older(md[roomId].lastActivity)]]

\* Sweep deleting the metadata entry alone (a variant C22 rules out)
SweepMetadataOnly ==
    /\ LET aged == Elapse(roomMetadata)
           expired == {roomId \in DOMAIN aged : Expired(aged, roomId)} IN
         /\ roomMetadata' = Delete(aged, expired)
         /\ rooms' = rooms
    /\ last' = Callback("sweep", "", NoRoom, TRUE)
    /\ Deliver(<<>>)
    /\ UNCHANGED <<socketRoomId, readyState, frames>>

\* The timer fires: sweepInterval after its previous run the setInterval
\* callback runs, over every key of roomMetadata.
Sweep ==
    /\ LET aged == Elapse(roomMetadata)
           expired == {roomId \in DOMAIN aged : Expired(aged, roomId)} IN
         /\ roomMetadata' = Delete(aged, expired)
         /\ rooms' = Delete(rooms, expired)
    /\ last' = Callback("sweep", "", NoRoom, TRUE)
    /\ Deliver(<<>>)
    /\ UNCHANGED <<socketRoomId, readyState, frames>>

\* the events a room's members are sent about the room
IsRoomEvent(ev) == ev.type \in {"chat-message", "user-count-update"}

\* the room events among the sends of the callback that has just run
RoomEvents(out, c) == SelectSeq(out, LAMBDA ev : ev.to = c /\ IsRoomEvent(ev))

\* the socket the name stood for is gone: "close" has been handled, or a new
\* socket has taken the name
Gone(c) == readyState'[c] = "CLOSED" \/ (readyState[c] = "CLOSED" /\ readyState'[c] = "OPEN")

\* Received with each frame put in front of the frames received before it (a
\* variant C16 rules out)
ReceivedNewestFirst(c, n) ==
    [i \in DOMAIN RoomEvents(sent', c) |-> [n |-> n, room |-> RoomEvents(sent', c)[i].room]]
    \o (IF Gone(c) THEN <<>> ELSE inbox[c])

\* What a client has received once the callback numbered n has run: every
\* client.send puts a frame on the socket, and the socket hands the frames to
\* the client (ws.onmessage) in the order they were put on it.
Received(c, n) ==
    (IF Gone(c) THEN <<>> ELSE inbox[c])
    \o [i \in DOMAIN RoomEvents(sent', c) |-> [n |-> n, room |-> RoomEvents(sent', c)[i].room]]

\* the step is recorded in the clients' inboxes
Logged ==
    /\ processed' = IF \E i \in DOMAIN sent' : IsRoomEvent(sent'[i])
                    THEN processed + 1 ELSE processed
    /\ inbox' = [c \in Conns |-> Received(c, processed')]

\* the step is not recorded
Unlogged == UNCHANGED <<processed, inbox>>

\* The content and sender fields the clients of the model send.
ChatFields == {[content |-> Str(<<"h", "i">>), sender |-> Str(<<"m", "e">>)],
               [content |-> Undefined, sender |-> Str(<<"m", "e">>)],
               [content |-> Str(<<"h", "i">>), sender |-> Undefined]}

Next ==
    \/ \E socket \in Conns : Connection(socket) /\ Unlogged
    \/ \E socket \in Conns, roomId \in RoomIdVals :
          CreateRoom(socket, roomId) /\ Unlogged
    \/ \E socket \in Conns, roomId \in RoomIdVals :
          JoinRoom(socket, roomId) /\ Unlogged
    \/ \E socket \in Conns, roomId \in RoomIdVals, f \in ChatFields :
          ChatMessage(socket, roomId, f.content, f.sender) /\ Unlogged
    \/ \E socket \in Conns : UnknownType(socket) /\ Unlogged
    \/ \E socket \in Conns : InvalidMessage(socket) /\ Unlogged
    \/ \E socket \in Conns : TransportClose(socket) /\ Unlogged
    \/ \E socket \in Conns : OnClose(socket) /\ Unlogged
    \/ Sweep /\ Unlogged

Spec == Init /\ [][Next]_vars

\* The same steps, with what each client has received kept in inbox.
OrderNext ==
    \/ \E socket \in Conns : Connection(socket) /\ Logged
    \/ \E socket \in Conns, roomId \in RoomIdVals :
          CreateRoom(socket, roomId) /\ Logged
    \/ \E socket \in Conns, roomId \in RoomIdVals :
          JoinRoom(socket, roomId) /\ Logged
    \/ \E socket \in Conns, roomId \in RoomIdVals, f \in ChatFields :
          ChatMessage(socket, roomId, f.content, f.sender) /\ Logged
    \/ \E socket \in Conns : UnknownType(socket) /\ Logged
    \/ \E socket \in Conns : InvalidMessage(socket) /\ Logged
    \/ \E socket \in Conns : TransportClose(socket) /\ Logged
    \/ \E socket \in Conns : OnClose(socket) /\ Logged
    \/ Sweep /\ Logged

OrderSpec == Init /\ [][OrderNext]_vars

---------------------------------------------------------------------------
(* Properties *)

Codes == GenCodes

\* the rooms whose membership set holds a connection
RoomsOf(c) == {roomId \in DOMAIN rooms : c \in rooms[roomId]}

\* C1 - chat isolation: a chat-message handled for room code A is never
\* delivered to a connection whose bound room (socket.roomId) is some B # A.
C1_ChatIsolation ==
    \A i \in DOMAIN sent :
        sent[i].type = "chat-message" =>
            ~(/\ socketRoomId[sent[i].to] # NoRoom
              /\ socketRoomId[sent[i].to] # sent[i].room)

\* C2 - self-flagging: of a chat-message broadcast to a room, exactly one
\* recipient, the originating connection, gets isOwnMessage = TRUE and every
\* other recipient gets FALSE.
C2_SelfFlagging ==
    (last.op = "chat-message" /\ last.ok) =>
        /\ \E i \in DOMAIN sent : sent[i].to = last.conn /\ sent[i].isOwnMessage
        /\ \A i \in DOMAIN sent : sent[i].isOwnMessage <=> sent[i].to = last.conn

\* C3 - a connection is an element of at most one room's membership set.
C3_AtMostOneRoom ==
    \A c \in Conns : Cardinality(RoomsOf(c)) <= 1

\* C4 - once the close event of a connection has been handled, the connection
\* is an element of no room's membership set.
C4_ClosedLeavesRooms ==
    \A c \in Conns : readyState[c] = "CLOSED" => RoomsOf(c) = {}

\* The timer keeps firing and every "close" event is eventually emitted.
Fairness ==
    /\ WF_vars(Sweep /\ Unlogged)
    /\ \A c \in Conns : WF_vars(OnClose(c) /\ Unlogged)

FairSpec == Init /\ [][Next]_vars /\ Fairness

AllClosed == \A c \in Conns : readyState[c] = "CLOSED"

\* C5 - rooms expire: if from some point on every connection has closed (so
\* that no create-room or join-room follows), then, with the timer firing,
\* every room's metadata entry and membership set are eventually deleted (and
\* stay so).
C5_RoomsExpire ==
    \A roomId \in Codes :
        <>[]AllClosed => <>[](~Has(roomMetadata, roomId) /\ ~Has(rooms, roomId))

\* the members of a room before a step (none when it has no membership set)
Members(roomId) == IF Has(rooms, roomId) THEN rooms[roomId] ELSE {}

\* C6 - the sweeper never deletes the metadata or the membership set of a room
\* that has one or more members when the sweep examines it, however old its
\* lastActivity.
C6_SweepKeepsOccupied ==
    [][last'.op = "sweep" =>
          \A roomId \in DOMAIN rooms :
              rooms[roomId] # {} =>
                  /\ Has(rooms', roomId) /\ rooms'[roomId] = rooms[roomId]
                  /\ Has(roomMetadata, roomId) => Has(roomMetadata', roomId)]_vars

\* a sweep has just passed over a room with members whose lastActivity lies
\* more than expireTime back
C6_Witness ==
    /\ last.op = "sweep"
    /\ \E roomId \in DOMAIN rooms :
          /\ rooms[roomId] # {}
          /\ Has(roomMetadata, roomId)
          /\ roomMetadata[roomId].lastActivity > expireTime

\* C7 - metadata is destroyed by the sweeper only: the close of the last member
\* of a room leaves the metadata entry and the now empty membership set in
\* place, and a join-room for a code that has metadata succeeds.
C7_MetadataOutlivesMembers ==
    [][/\ last'.op # "sweep" =>
             /\ DOMAIN roomMetadata \subseteq DOMAIN roomMetadata'
             /\ DOMAIN rooms \subseteq DOMAIN rooms'
       /\ (last'.op = "close" /\ last'.code # NoRoom
              /\ rooms[last'.code] \subseteq {last'.conn}) =>
             /\ roomMetadata' = roomMetadata
             /\ Has(rooms', last'.code) /\ rooms'[last'.code] = {}
       /\ (last'.op = "join-room" /\ Has(roomMetadata, last'.code)) =>
             /\ last'.ok
             /\ last'.conn \in rooms'[last'.code]
             /\ socketRoomId'[last'.conn] = last'.code]_vars

\* the only member of a room has just closed, and the room is still there
C7_Witness ==
    /\ last.op = "close" /\ last.code # NoRoom
    /\ readyState[last.conn] = "CLOSED"
    /\ Has(rooms, last.code) /\ rooms[last.code] = {}
    /\ Has(roomMetadata, last.code)

\* C8 - a sweep deletes the metadata entry and the membership set of every room
\* whose membership set is absent or empty and whose lastActivity lies more
\* than expireTime back, and leaves every other room as it is; a join-room for
\* a code with neither entry fails with "Room not found".
C8_SweepDeletesExpired ==
    [][/\ last'.op = "sweep" =>
             \A roomId \in DOMAIN roomMetadata :
                 LET elapsed == Older(roomMetadata[roomId].lastActivity) IN
                 IF Members(roomId) = {} /\ elapsed > expireTime
                 THEN ~Has(roomMetadata', roomId) /\ ~Has(rooms', roomId)
                 ELSE /\ Has(roomMetadata', roomId)
                      /\ roomMetadata'[roomId].lastActivity = elapsed
                      /\ Has(rooms, roomId) <=> Has(rooms', roomId)
                      /\ Has(rooms, roomId) => rooms'[roomId] = rooms[roomId]
       /\ (last'.op = "join-room" /\ last'.code # NoRoom
              /\ ~Has(roomMetadata, last'.code) /\ ~Has(rooms, last'.code)) =>
             /\ ~last'.ok
             /\ sent' = SendIfOpen(last'.conn, ErrorEvent(last'.conn, "Room not found"))
             /\ rooms' = rooms /\ roomMetadata' = roomMetadata]_vars

\* a join-room has just failed for the code of a room that a closed connection
\* was bound to: the room was swept after its members left
C8_Witness ==
    /\ last.op = "join-room" /\ ~last.ok /\ last.code # NoRoom
    /\ \E c \in Conns : readyState[c] = "CLOSED" /\ socketRoomId[c] = last.code
    /\ \E i \in DOMAIN sent : sent[i].message = "Room not found"

\* out holds a user-count-update to c that carries n
CountIn(out, c, n) ==
    \E i \in DOMAIN out :
        out[i].to = c /\ out[i].type = "user-count-update" /\ out[i].userCount = n

\* C9 - X creates a room whose code has no other member and Y joins that code
\* at once: both receive a user-count-update with userCount = 2.  Stated of
\* every join-room of an open Y that finds X, open, as the only member, which
\* is the state create-room leaves.
C9_CreateThenJoin ==
    [][(/\ last'.op = "join-room" /\ Has(rooms, last'.code)
        /\ \E X \in Conns \ {last'.conn} :
              rooms[last'.code] = {X} /\ readyState[X] = "OPEN"
        /\ readyState[last'.conn] = "OPEN") =>
          /\ last'.ok
          /\ Cardinality(rooms'[last'.code]) = 2
          /\ \A c \in rooms'[last'.code] :
                CountIn(sent', c, 2) /\ lastUserCount'[c] = 2]_vars

\* after two frames, X's create-room and Y's join-room, both are open members
\* and have been sent userCount 2
C9_Witness ==
    /\ last.op = "join-room" /\ last.ok
    /\ Cardinality(rooms[last.code]) = 2
    /\ \A c \in rooms[last.code] : readyState[c] = "OPEN" /\ CountIn(sent, c, 2)
    /\ frames = 2

\* C10 - concurrent joins: a join-room for an existing code succeeds whatever
\* handlers ran before it, adds the joiner to the membership set and loses none
\* of its members, and the user-count-update it sends to every open member
\* carries the size of the set; so N open joiners of an empty room end as its N
\* members, each with N as the latest userCount.
C10_ConcurrentJoins ==
    [][(last'.op = "join-room" /\ last'.code # NoRoom
           /\ (Has(rooms, last'.code) \/ Has(roomMetadata, last'.code))) =>
          /\ last'.ok
          /\ rooms'[last'.code] = Members(last'.code) \cup {last'.conn}
          /\ \A roomId \in DOMAIN rooms \ {last'.code} : rooms'[roomId] = rooms[roomId]
          /\ \A c \in rooms'[last'.code] :
                readyState[c] = "OPEN" =>
                    lastUserCount'[c] = Cardinality(rooms'[last'.code])]_vars

\* two open connections are the members of a room after three frames (its
\* creation and their joins), each with 2 as the latest userCount
C10_Witness ==
    /\ last.op = "join-room" /\ last.ok
    /\ Cardinality(rooms[last.code]) = 2
    /\ \A c \in rooms[last.code] :
          readyState[c] = "OPEN" /\ lastUserCount[c] = 2 /\ socketRoomId[c] = last.code
    /\ \A roomId \in DOMAIN rooms \ {last.code} : rooms[roomId] = {}
    /\ frames = 3

\* C11 - a join-room for a code that has neither a metadata entry nor a
\* membership set fails: the joiner is sent the error "Room not found" and
\* nothing else, is added to no membership set, keeps the room binding it had
\* (none if it had none), and no membership set or metadata entry is created
\* for the code.
C11_JoinUnknownFails ==
    [][(/\ last'.op = "join-room" /\ last'.code # NoRoom
        /\ ~Has(roomMetadata, last'.code) /\ ~Has(rooms, last'.code)) =>
          /\ ~last'.ok
          /\ readyState[last'.conn] = "OPEN" =>
                /\ Len(sent') = 1
                /\ sent'[1].to = last'.conn /\ sent'[1].type = "error"
                /\ sent'[1].message = "Room not found"
          /\ DOMAIN rooms' = DOMAIN rooms
          /\ \A roomId \in DOMAIN rooms : rooms'[roomId] = rooms[roomId]
          /\ DOMAIN roomMetadata' = DOMAIN roomMetadata
          /\ socketRoomId'[last'.conn] = socketRoomId[last'.conn]
          /\ ~Has(rooms', last'.code) /\ ~Has(roomMetadata', last'.code)]_vars

\* an open connection bound to no room has just been refused a code that has
\* no entry, and is still a member of nothing and bound to nothing
C11_Witness ==
    /\ last.op = "join-room" /\ ~last.ok /\ last.code # NoRoom
    /\ readyState[last.conn] = "OPEN"
    /\ sent = <<ErrorEvent(last.conn, "Room not found")>>
    /\ socketRoomId[last.conn] = NoRoom /\ RoomsOf(last.conn) = {}
    /\ ~Has(rooms, last.code) /\ ~Has(roomMetadata, last.code)

\* C12 - create-room is idempotent on the room: a create-room for a code that
\* already has a membership set adds the caller to that set and keeps its
\* members, so two connections that create the same code are both members of
\* the one set kept under the code, and the userCount of the room-created sent
\* to the caller is the size of the set, the earlier members included.
C12_CreateIdempotent ==
    [][last'.op = "create-room" =>
          /\ last'.ok
          /\ rooms'[last'.code] = Members(last'.code) \cup {last'.conn}
          /\ DOMAIN rooms' = DOMAIN rooms \cup {last'.code}
          /\ \A roomId \in DOMAIN rooms \ {last'.code} : rooms'[roomId] = rooms[roomId]
          /\ DOMAIN roomMetadata' = DOMAIN roomMetadata \cup {last'.code}
          /\ socketRoomId'[last'.conn] = last'.code
          /\ readyState[last'.conn] = "OPEN" =>
                /\ Len(sent') = 1
                /\ sent'[1].to = last'.conn /\ sent'[1].type = "room-created"
                /\ sent'[1].roomId = last'.code
                /\ sent'[1].userCount = Cardinality(Members(last'.code) \cup {last'.conn})]_vars

\* after two frames, the create-room of each of two open connections for the
\* same code, both are members of the room and the second was sent userCount 2
C12_Witness ==
    /\ last.op = "create-room" /\ frames = 2
    /\ rooms[last.code] = Conns /\ DOMAIN rooms = {last.code}
    /\ \A c \in Conns : readyState[c] = "OPEN" /\ socketRoomId[c] = last.code
    /\ sent = <<RoomCreated(last.conn, last.code, 2)>>

\* C13 - accurate occupant counts: between callbacks, when everything sent has
\* been delivered, the userCount each open member of a room got last (in a
\* room-created or a user-count-update) is the size of the room's membership
\* set.
C13_AccurateCounts ==
    \A roomId \in DOMAIN rooms :
        \A c \in rooms[roomId] :
            readyState[c] = "OPEN" => lastUserCount[c] = Cardinality(rooms[roomId])

\* the connections a callback sent an event of the type to
SentTo(out, type) == {out[i].to : i \in {j \in DOMAIN out : out[j].type = type}}

\* C14 - inbound room codes are case-normalised before lookup: a create-room,
\* join-room or chat-message acts on the room kept under the upper-case form
\* of the code it carries (so codes that differ in case only address the same
\* room), no table gets a key that is not upper case, and room-created and
\* joined-room carry the upper-case form.
C14_CaseNormalised ==
    [][/\ \A roomId \in DOMAIN rooms' \cup DOMAIN roomMetadata' :
              roomId = toUpperCase(roomId)
       /\ last'.raw # NoRoom =>
             LET upper == [i \in DOMAIN last'.raw |-> UpperChar(last'.raw[i])] IN
             /\ last'.code = upper
             /\ \A roomId \in DOMAIN rooms' \ {upper} :
                    Has(rooms, roomId) /\ rooms'[roomId] = rooms[roomId]
             /\ last'.op = "create-room" =>
                    /\ rooms'[upper] = Members(upper) \cup {last'.conn}
                    /\ socketRoomId'[last'.conn] = upper
             /\ last'.op = "join-room" =>
                    /\ last'.ok <=> (Has(rooms, upper) \/ Has(roomMetadata, upper))
                    /\ last'.ok =>
                          /\ rooms'[upper] = Members(upper) \cup {last'.conn}
                          /\ socketRoomId'[last'.conn] = upper
             /\ last'.op = "chat-message" =>
                    /\ last'.ok <=> Has(rooms, upper)
                    /\ last'.ok =>
                          SentTo(sent', "chat-message") =
                              {c \in rooms[upper] : readyState[c] = "OPEN"}
             /\ \A i \in DOMAIN sent' :
                    sent'[i].type \in {"room-created", "joined-room"} =>
                        sent'[i].roomId = upper]_vars

\* X created AB12CD and Y joined ab12cd in the next frame: Y was sent
\* joined-room with AB12CD, and both a user-count-update with 2
C14_Witness ==
    /\ last.op = "join-room" /\ last.ok /\ frames = 2
    /\ last.raw = ab12cd /\ last.code = AB12CD
    /\ rooms[AB12CD] = Conns /\ DOMAIN rooms = {AB12CD}
    /\ sent[1] = JoinedRoom(last.conn, AB12CD)
    /\ \A c \in Conns : readyState[c] = "OPEN" /\ CountIn(sent, c, 2)

\* the message texts of the error events of the server
ErrorMessages == {"Invalid message", "Unknown message type", "Invalid room code",
                  "Invalid chat message format", "Room not found"}

\* C15 - a frame answered with an error causes exactly one event, an error to
\* the connection the frame came from, and none to any other connection; it
\* leaves rooms, roomMetadata and every room binding as they were, and the
\* connection open and a member of the rooms it was a member of.  Every frame
\* of an open connection that a handler rejects is answered so.
C15_ErrorReplies ==
    [][/\ (\E i \in DOMAIN sent' : sent'[i].type = "error") =>
             /\ Len(sent') = 1
             /\ sent'[1].to = last'.conn
             /\ sent'[1].message \in ErrorMessages
             /\ ~last'.ok
             /\ rooms' = rooms /\ roomMetadata' = roomMetadata
             /\ socketRoomId' = socketRoomId
             /\ readyState' = readyState /\ readyState'[last'.conn] = "OPEN"
       /\ (~last'.ok /\ readyState[last'.conn] = "OPEN") =>
             \E i \in DOMAIN sent' : sent'[i].type = "error"]_vars

\* an open member of a room has just been sent an error, and is still open,
\* bound to the room and a member of it
C15_Witness ==
    /\ ~last.ok
    /\ Len(sent) = 1 /\ sent[1].type = "error" /\ sent[1].to = last.conn
    /\ readyState[last.conn] = "OPEN"
    /\ socketRoomId[last.conn] # NoRoom
    /\ Has(rooms, socketRoomId[last.conn])
    /\ last.conn \in rooms[socketRoomId[last.conn]]

EventsTo(out, c, type) == SelectSeq(out, LAMBDA ev : ev.to = c /\ ev.type = type)

\* C17 - a successful join-room sends one user-count-update to every member
\* of the room that is open, the joiner included, and to nobody else; its
\* userCount is the size of the membership set after the joiner was added,
\* which is at least 1.
C17_JoinBroadcast ==
    [][(last'.op = "join-room" /\ last'.ok) =>
          LET members == rooms'[last'.code] IN
          /\ last'.conn \in members
          /\ Cardinality(members) >= 1
          /\ \A c \in Conns :
                LET updates == EventsTo(sent', c, "user-count-update") IN
                IF c \in members /\ readyState[c] = "OPEN"
                THEN /\ Len(updates) = 1
                     /\ updates[1].userCount = Cardinality(members)
                ELSE updates = <<>>]_vars

\* a connection has joined a room whose only member had closed: it is the
\* only member and was sent joined-room and userCount 1
C17_Witness ==
    /\ last.op = "join-room" /\ last.ok
    /\ rooms[last.code] = {last.conn}
    /\ readyState[last.conn] = "OPEN"
    /\ sent = <<JoinedRoom(last.conn, last.code),
                UserCountUpdate(last.conn, 1, last.code)>>
    /\ \E d \in Conns \ {last.conn} :
          readyState[d] = "CLOSED" /\ socketRoomId[d] = last.code

\* C18 - when the close of a connection bound to a room is handled, the
\* connection leaves the room's membership set; if members remain, each of
\* them that is open is sent one user-count-update carrying the new size and
\* nobody else (the closed connection least of all) is sent anything; if none
\* remains, nothing is sent and the room keeps its metadata and its now empty
\* membership set.
C18_CloseBroadcast ==
    [][(last'.op = "close" /\ last'.code # NoRoom) =>
          LET remaining == rooms[last'.code] \ {last'.conn} IN
          /\ Has(rooms', last'.code) /\ rooms'[last'.code] = remaining
          /\ roomMetadata' = roomMetadata /\ Has(roomMetadata', last'.code)
          /\ \A i \in DOMAIN sent' : sent'[i].type = "user-count-update"
          /\ \A c \in Conns :
                LET updates == EventsTo(sent', c, "user-count-update") IN
                IF c \in remaining /\ readyState'[c] = "OPEN"
                THEN /\ Len(updates) = 1
                     /\ updates[1].userCount = Cardinality(remaining)
                ELSE updates = <<>>
          /\ remaining = {} => sent' = <<>>]_vars

\* one of the two members of a room has closed and the other, open, was sent
\* userCount 1
C18_Witness ==
    /\ last.op = "close" /\ last.code # NoRoom
    /\ readyState[last.conn] = "CLOSED"
    /\ \E d \in Conns \ {last.conn} :
          /\ rooms[last.code] = {d} /\ readyState[d] = "OPEN"
          /\ sent = <<UserCountUpdate(d, 1, last.code)>>
          /\ lastUserCount[d] = 1

\* C19 - best-effort broadcast: a chat-message or user-count-update broadcast
\* skips the members of the room that are not open (closed, with the close
\* event still to be handled), sends the event once to every member that is
\* open, and sends the originating connection no error.
C19_BestEffortBroadcast ==
    [][(/\ last'.ok /\ last'.code # NoRoom
        /\ last'.op \in {"chat-message", "join-room", "close"}) =>
          LET type == IF last'.op = "chat-message" THEN "chat-message"
                      ELSE "user-count-update" IN
          /\ \A c \in Conns :
                Len(EventsTo(sent', c, type)) =
                    IF c \in rooms'[last'.code] /\ readyState'[c] = "OPEN"
                    THEN 1 ELSE 0
          /\ \A i \in DOMAIN sent' : sent'[i].type # "error"]_vars

\* a chat-message was broadcast to a room with a member that is no longer
\* open: the open member got it, the other nothing, and no error was sent
C19_Witness ==
    /\ last.op = "chat-message" /\ last.ok
    /\ \E c, d \in rooms[last.code] :
          /\ readyState[c] = "CLOSING" /\ readyState[d] = "OPEN"
          /\ socketRoomId[c] = last.code
          /\ sent = <<ChatEvent(d, sent[1].content, sent[1].sender,
                                d = last.conn, last.code)>>

\* C20 - every chat-message that is broadcast to a room sets the room's
\* lastActivity to the time of the message, so that the inactivity the sweeper
\* measures starts anew at the message.
C20_ChatTouchesActivity ==
    [][(last'.op = "chat-message" /\ last'.ok /\ Has(roomMetadata, last'.code)) =>
          /\ Has(roomMetadata', last'.code)
          /\ timeSinceActivity(roomMetadata', last'.code) = 0]_vars

\* C21 - a create-room that carries no code uses a code that, when the handler
\* runs, is a key of neither rooms nor roomMetadata; so the creator is the
\* only member of a new room and the room-created it is sent has userCount 1.
C21_GeneratedCodeFresh ==
    [][(last'.op = "create-room" /\ last'.raw = NoRoom) =>
          /\ ~Has(rooms, last'.code) /\ ~Has(roomMetadata, last'.code)
          /\ Has(rooms', last'.code) /\ rooms'[last'.code] = {last'.conn}
          /\ Has(roomMetadata', last'.code)
          /\ readyState[last'.conn] = "OPEN" =>
                sent' = <<RoomCreated(last'.conn, last'.code, 1)>>]_vars

\* a create-room without a code was handled while another room, with a
\* member, existed: the new room has another code and the creator alone in it
C21_Witness ==
    /\ last.op = "create-room" /\ last.raw = NoRoom
    /\ readyState[last.conn] = "OPEN"
    /\ rooms[last.code] = {last.conn}
    /\ sent = <<RoomCreated(last.conn, last.code, 1)>>
    /\ \E roomId \in DOMAIN rooms \ {last.code} :
          rooms[roomId] # {} /\ Has(roomMetadata, roomId)

\* C22 - rooms and roomMetadata have the same keys in every reachable state:
\* no code has a membership set and no metadata, or metadata and no
\* membership set.
C22_SameKeys == DOMAIN rooms = DOMAIN roomMetadata

\* a room has been swept (the code a closed connection was bound to is a key
\* of neither table) while another room is a key of both
C22_Witness ==
    /\ \E c \in Conns :
          /\ readyState[c] = "CLOSED" /\ socketRoomId[c] # NoRoom
          /\ ~Has(rooms, socketRoomId[c]) /\ ~Has(roomMetadata, socketRoomId[c])
    /\ \E roomId \in DOMAIN rooms : Has(roomMetadata, roomId)

\* C23 - a chat-message is delivered to members of a room only if the
\* connection it came from is itself a member of the room: naming the code of
\* a room it has neither created nor joined gets a connection no delivery.
C23_ChatOnlyFromMembers ==
    (last.op = "chat-message" /\ \E i \in DOMAIN sent : sent[i].type = "chat-message") =>
        last.conn \in Members(last.code)

\* the client that joined, on one message (joinRoom's socket.onmessage):
\* the userCount it shows afterwards
onmessage(userCount, data) ==
    CASE data.type = "joined-room" -> 2
      [] data.type = "user-count-update" ->
            IF data.userCount # 0 THEN data.userCount ELSE userCount
      [] OTHER -> userCount

\* the userCount a client shows once it has handled the messages in turn
RECURSIVE Shown(_, _)
Shown(userCount, messages) ==
    IF messages = <<>> THEN userCount
    ELSE Shown(onmessage(userCount, Head(messages)), Tail(messages))

\* what a callback sent to a connection, in the order of the sends
MessagesTo(out, c) == SelectSeq(out, LAMBDA ev : ev.to = c)

\* C24 - in every successful join-room the joiner is sent joined-room before
\* the user-count-update the join causes; so a client that shows 2 on
\* joined-room and userCount on user-count-update shows, once it has handled
\* both, the size of the room's membership set.
C24_JoinedBeforeCount ==
    [][(last'.op = "join-room" /\ last'.ok /\ readyState[last'.conn] = "OPEN") =>
          LET got == MessagesTo(sent', last'.conn) IN
          /\ Len(got) = 2
          /\ got[1].type = "joined-room" /\ got[2].type = "user-count-update"
          /\ \A userCount \in 1..2 :
                Shown(userCount, got) = Cardinality(rooms'[last'.code])]_vars

\* a connection has joined a room it is the only member of: joined-room made
\* its client show 2 and the user-count-update that followed made it show 1
C24_Witness ==
    /\ last.op = "join-room" /\ last.ok /\ readyState[last.conn] = "OPEN"
    /\ Cardinality(rooms[last.code]) = 1
    /\ LET got == MessagesTo(sent, last.conn) IN
          /\ Len(got) = 2
          /\ Shown(1, <<got[1]>>) = 2
          /\ Shown(1, got) = 1

====
